---- MODULE Spec2Model ----
(***************************************************************************)
(* Model of codepipelinetos3.py: the AWS Lambda handler that downloads a   *)
(* CodePipeline input artifact (a zip), extracts it into a temporary       *)
(* directory, uploads every extracted file to the static-site bucket and   *)
(* reports success to CodePipeline.                                        *)
(*                                                                         *)
(* A path is a sequence of path components; "a/b" is <<"a", "b">>.         *)
(* Library calls (json.loads, zipfile, os.walk, mimetypes, boto3) are      *)
(* modelled by their documented behaviour; failures of the remote calls    *)
(* (download_file, upload_file) are nondeterministic.                      *)
(***************************************************************************)
EXTENDS Integers, Sequences, FiniteSets, TLC

\* ------------------------------------------------------------- bounds
\* Longest archive (number of zip members) of an invocation under Spec.
MaxEntries == 3
\* Longest archive under SpecRerun, where the handler is invoked repeatedly.
MaxRerunEntries == 1
\* Number of invocations under SpecRerun.
MaxRuns == 2

\* ------------------------------------------------------------- inputs
None == "None"

\* The raw UserParameters strings an event may carry (None: key absent).
UserParameterTexts ==
    { None,
      "{\"staticS3\": \"my-site-bucket\"}",
      "{\"staticS3\": \"other-bucket\"}",
      "{\"foo\": \"bar\"}",
      "not json",
      "5",
      "[\"staticS3\"]" }

CredentialFields == {"accessKeyId", "secretAccessKey", "sessionToken"}

\* The artifactCredentials an event may carry: any of the fields may be missing.
CredentialSets == SUBSET CredentialFields

\* Zip members: file entries, a directory marker, an entry escaping the root.
Entries ==
    { [name |-> <<"index.html">>,             isdir |-> FALSE, data |-> "v1"],
      [name |-> <<"index.html">>,             isdir |-> FALSE, data |-> "v2"],
      [name |-> <<"css", "site.css">>,        isdir |-> FALSE, data |-> "v1"],
      [name |-> <<"css">>,                    isdir |-> TRUE,  data |-> ""],
      [name |-> <<"README">>,                 isdir |-> FALSE, data |-> "v1"],
      [name |-> <<"..", "..", "etc", "passwd">>, isdir |-> FALSE, data |-> "v1"] }

SeqsUpTo(S, n) == UNION { [1..k -> S] : k \in 0..n }

\* What the source bucket may hold under the artifact's key: a zip archive
\* with up to n members, or a blob that is not a zip file.
SourceObjects(n) ==
    { [iszip |-> TRUE, members |-> m] : m \in SeqsUpTo(Entries, n) }
        \cup { [iszip |-> FALSE, members |-> <<>>] }

\* tempfile.mkdtemp() returns a directory name not used before.
TmpNames == <<"tmp_a", "tmp_b", "tmp_c", "tmp_d">>


\* ------------------------------------------------ library behaviour
\* json.loads on the raw UserParameters text (line 56).
json_loads(text) ==
    CASE text = "{\"staticS3\": \"my-site-bucket\"}" ->
            [kind |-> "object", keys |-> {"staticS3"}, staticS3 |-> "my-site-bucket"]
      [] text = "{\"staticS3\": \"other-bucket\"}" ->
            [kind |-> "object", keys |-> {"staticS3"}, staticS3 |-> "other-bucket"]
      [] text = "{\"foo\": \"bar\"}" ->
            [kind |-> "object", keys |-> {"foo"}, staticS3 |-> None]
      [] text = "5" ->
            [kind |-> "number", keys |-> {}, staticS3 |-> None]
      [] text = "[\"staticS3\"]" ->
            [kind |-> "array", keys |-> {"staticS3"}, staticS3 |-> None]
      [] OTHER ->
            [kind |-> "JSONDecodeError", keys |-> {}, staticS3 |-> None]

\* os.path.splitext on a file name: the extension, "" when there is none.
splitext(name) ==
    CASE name = "index.html" -> ".html"
      [] name = "site.css"   -> ".css"
      [] OTHER               -> ""

\* mimetypes' extension table, restricted to the extensions of Entries.
types_map == (".html" :> "text/html") @@ (".css" :> "text/css")

\* mimetypes.guess_type(path, strict=False)[0] (line 93).
guess_type(path) ==
    LET ext == splitext(path[Len(path)])
    IN  IF ext \in DOMAIN types_map THEN types_map[ext] ELSE None

\* zipfile._extract_member drops "", "." and ".." components of a member name.
invalid_path_parts == {"", ".", ".."}
ValidPart(x) == x \notin invalid_path_parts
Sanitize(name) == SelectSeq(name, ValidPart)

IsPrefix(p, q) == Len(p) <= Len(q) /\ SubSeq(q, 1, Len(p)) = p
dirname(path) == SubSeq(path, 1, Len(path) - 1)

\* ZipFile.extractall(path) (line 128): every member, in archive order, is
\* written below path under its sanitized name; a later member overwrites an
\* earlier one of the same name; a directory member only creates a directory.
RECURSIVE extractall(_, _, _)
extractall(members, path, fs) ==
    IF members = <<>> THEN fs
    ELSE LET m      == Head(members)
             target == path \o Sanitize(m.name)
             fs2    == IF m.isdir
                       THEN [fs EXCEPT !.dirs = @ \cup {target}]
                       ELSE [files |-> (target :> m.data) @@
                                        [p \in DOMAIN fs.files \ {target} |-> fs.files[p]],
                             dirs  |-> fs.dirs \cup {dirname(target)}]
         IN  extractall(Tail(members), path, fs2)

EmptyFs == [files |-> <<>>, dirs |-> {}]

\* os.path.relpath(path, start) for a path below start (line 82).
relpath(path, start) == SubSeq(path, Len(start) + 1, Len(path))

\* Mutant of WalkOrders: only the files directly in top are listed, as
\* os.listdir(top) would, instead of walking the tree.
WalkOrdersTopOnly(fs, top) ==
    LET below == { p \in DOMAIN fs.files : dirname(p) = top }
        n     == Cardinality(below)
    IN  { s \in [1..n -> below] : \A i, j \in 1..n : i # j => s[i] # s[j] }

\* The orders in which os.walk(top) (top-down) can list the files below top:
\* a directory's own files come before those of its subdirectories, and each
\* subdirectory's tree is listed as one block; os.listdir's order is arbitrary.
WalkOrders(fs, top) ==
    LET below == { p \in DOMAIN fs.files : IsPrefix(top, p) /\ p # top }
        n     == Cardinality(below)
        subs  == UNION { { SubSeq(p, 1, k) : k \in (Len(top) + 1)..(Len(p) - 1) } :
                            p \in below }
    IN  { s \in [1..n -> below] :
            /\ \A i, j \in 1..n : i # j => s[i] # s[j]
            /\ \A i, j \in 1..n :
                 i < j => ~ ( dirname(s[j]) # dirname(s[i])
                              /\ IsPrefix(dirname(s[j]), dirname(s[i])) )
            /\ \A d \in subs : \A i, j, k \in 1..n :
                 (i < j /\ j < k /\ IsPrefix(d, s[i]) /\ IsPrefix(d, s[k]))
                     => IsPrefix(d, s[j]) }

\* The list comprehension of lines 82-84.
ListFiles(order, sourcedir) == [i \in 1..Len(order) |-> relpath(order[i], sourcedir)]

\* ------------------------------------------------ the program's functions
\* setup_s3_client (lines 29-36): a client, or KeyError on a missing field.
setup_s3_client(creds) ==
    IF CredentialFields \subseteq creds
    THEN [raised |-> FALSE, error |-> None]
    ELSE [raised |-> TRUE,  error |-> "KeyError"]

\* get_static_bucket (lines 53-69).
get_static_bucket(userParameters) ==
    LET decoded == json_loads(userParameters)
    IN  IF userParameters = None \/ decoded.kind = "JSONDecodeError"
        THEN [raised |-> TRUE, value |-> None,
              error |-> "UserParameters could not be decoded as JSON"]
        ELSE IF decoded.kind = "number"
        THEN \* 'staticS3' not in 5: argument of type 'int' is not iterable
             [raised |-> TRUE, value |-> None, error |-> "TypeError"]
        ELSE IF "staticS3" \notin decoded.keys
        THEN [raised |-> TRUE, value |-> None,
              error |-> "Your UserParameters JSON must include the static S3 bucket"]
        ELSE IF decoded.kind = "array"
        THEN \* decoded_parameters['staticS3'] on a list
             [raised |-> TRUE, value |-> None, error |-> "TypeError"]
        ELSE [raised |-> FALSE, value |-> decoded.staticS3, error |-> None]

\* Mutant of mime_for: the type is guessed from the directory, not the file.
mime_for_dir(sourcedir, uploadfile) ==
    LET mime == guess_type(sourcedir)
    IN  IF mime = None THEN "binary/octet-stream" ELSE mime

\* The content type of lines 93-95.
mime_for(sourcedir, uploadfile) ==
    LET mime == guess_type(sourcedir \o uploadfile)
    IN  IF mime = None THEN "binary/octet-stream" ELSE mime

\* Mutant of UploadArgs: the local path is passed as the key as well.
UploadArgsTmpKey(sourcedir, s3bucket, uploadfile) ==
    [Filename    |-> sourcedir \o uploadfile,
     Bucket      |-> s3bucket,
     Key         |-> sourcedir \o uploadfile,
     ContentType |-> mime_for(sourcedir, uploadfile)]

\* The arguments of upload_file at line 98 (tmplocation from line 87).
UploadArgs(sourcedir, s3bucket, uploadfile) ==
    [Filename    |-> sourcedir \o uploadfile,
     Bucket      |-> s3bucket,
     Key         |-> uploadfile,
     ContentType |-> mime_for(sourcedir, uploadfile)]

\* ------------------------------------------------------------- state
VARIABLES
    pc,              \* position in lambda_handler: idle, mkdtemp, setup, download,
                     \* extract, walk, upload, done (returned), raised (exception)
    userParameters,  \* the event's UserParameters text, None when absent
    creds,           \* the fields present in the event's artifactCredentials
    statics3,        \* line 117
    sourcedir,       \* line 118: the extraction directory (a path)
    tmpfile,         \* line 125: "none", "open" or "deleted"
    archive,         \* what download_file wrote to the temporary file
    localfs,         \* local files and directories of this invocation
    files,           \* lines 82-84
    idx,             \* the upload loop's position in files
    uploads,         \* the upload_file calls of this invocation that succeeded
    error,           \* the exception that ended the invocation
    tmpdirs,         \* the temporary directories this invocation created
                     \* and that still exist
    dest,            \* the destination buckets: <<bucket, key>> -> object
    reports,         \* the job results CodePipeline received for this job
    invocation,      \* number of the current invocation; it stands for the job id
    lastRun          \* the previous invocation, when it succeeded: its archive,
                     \* its bucket and the destination as it left it

vars == << pc, userParameters, creds, statics3, sourcedir, tmpfile, archive,
           localfs, files, idx, uploads, error, tmpdirs, dest, reports,
           invocation, lastRun >>

env   == << invocation, lastRun >>
event == << userParameters, creds >>

\* lambda_handler has returned ("done") or has let an exception out ("raised").
EndStates == {"done", "raised"}

NoArchive == [iszip |-> FALSE, members |-> <<>>]
NoRun     == [ok |-> FALSE, archive |-> NoArchive, bucket |-> None, dest |-> <<>>]

Init ==
    /\ pc = "idle"
    /\ userParameters = None
    /\ creds = {}
    /\ statics3 = None
    /\ sourcedir = <<>>
    /\ tmpfile = "none"
    /\ archive = NoArchive
    /\ localfs = EmptyFs
    /\ files = <<>>
    /\ idx = 1
    /\ uploads = <<>>
    /\ error = None
    /\ tmpdirs = {}
    /\ dest = <<>>
    /\ reports = <<>>
    /\ invocation = 1
    /\ lastRun = NoRun

\* ----------------------------------------------------- lambda_handler
\* Lines 111-117: read the event and resolve the destination bucket.
Invoke ==
    /\ pc = "idle"
    /\ \E up \in UserParameterTexts, cr \in CredentialSets :
         LET r == get_static_bucket(up)
         IN  /\ userParameters' = up
             /\ creds' = cr
             /\ IF r.raised
                THEN /\ pc' = "raised"
                     /\ error' = r.error
                     /\ UNCHANGED statics3
                ELSE /\ pc' = "mkdtemp"
                     /\ statics3' = r.value
                     /\ UNCHANGED error
    /\ UNCHANGED << sourcedir, tmpfile, archive, localfs, files, idx, uploads,
                    tmpdirs, dest, reports, env >>

\* Line 118: sourcedir = tempfile.mkdtemp().
Mkdtemp ==
    /\ pc = "mkdtemp"
    /\ sourcedir' = << TmpNames[invocation] >>
    /\ tmpdirs' = tmpdirs \cup { << TmpNames[invocation] >> }
    /\ pc' = "setup"
    /\ UNCHANGED << event, statics3, tmpfile, archive, localfs, files, idx,
                    uploads, error, dest, reports, env >>

\* Line 123: s3 = setup_s3_client(jobdata).
SetupClient ==
    /\ pc = "setup"
    /\ LET r == setup_s3_client(creds)
       IN  IF r.raised
           THEN pc' = "raised" /\ error' = r.error
           ELSE pc' = "download" /\ UNCHANGED error
    /\ UNCHANGED << event, statics3, sourcedir, tmpfile, archive, localfs, files,
                    idx, uploads, tmpdirs, dest, reports, env >>

\* Lines 125-126: the temporary file is created and the artifact downloaded;
\* objs are the objects the source bucket may hold under the artifact's key.
DownloadOk(objs) ==
    /\ pc = "download"
    /\ tmpfile' = "open"
    /\ archive' \in objs
    /\ pc' = "extract"
    /\ UNCHANGED << event, statics3, sourcedir, localfs, files, idx, uploads,
                    error, tmpdirs, dest, reports, env >>

\* Lines 125-126: download_file raises (access denied, transport error); the
\* with block deletes the temporary file on the way out.
DownloadFail ==
    /\ pc = "download"
    /\ tmpfile' = "deleted"
    /\ pc' = "raised"
    /\ error' = "ClientError"
    /\ UNCHANGED << event, statics3, sourcedir, archive, localfs, files, idx,
                    uploads, tmpdirs, dest, reports, env >>

\* Lines 127-128: open the zip and extract it; leaving the with block deletes
\* the temporary file. A file that is not a zip raises BadZipFile.
Extract ==
    /\ pc = "extract"
    /\ tmpfile' = "deleted"
    /\ IF archive.iszip
       THEN /\ localfs' = extractall(archive.members, sourcedir, localfs)
            /\ pc' = "walk"
            /\ UNCHANGED error
       ELSE /\ pc' = "raised"
            /\ error' = "BadZipFile"
            /\ UNCHANGED localfs
    /\ UNCHANGED << event, statics3, sourcedir, archive, files, idx, uploads,
                    tmpdirs, dest, reports, env >>

\* ------------------------------------------------------- upload_to_s3
\* Lines 78-84: list the extracted files relative to sourcedir.
Walk ==
    /\ pc = "walk"
    /\ \E order \in WalkOrders(localfs, sourcedir) :
         files' = ListFiles(order, sourcedir)
    /\ idx' = 1
    /\ pc' = "upload"
    /\ UNCHANGED << event, statics3, sourcedir, tmpfile, archive, localfs,
                    uploads, error, tmpdirs, dest, reports, env >>

\* Lines 86-98, one iteration: upload_file succeeds and the object replaces
\* whatever the bucket held under the key.
UploadOk ==
    /\ pc = "upload"
    /\ idx <= Len(files)
    /\ LET a == UploadArgs(sourcedir, statics3, files[idx])
       IN  /\ a.Filename \in DOMAIN localfs.files
           /\ LET obj == [data |-> localfs.files[a.Filename],
                          ContentType |-> a.ContentType]
                  k   == << a.Bucket, a.Key >>
              IN  /\ dest' = (k :> obj) @@ [x \in DOMAIN dest \ {k} |-> dest[x]]
                  /\ uploads' = Append(uploads,
                                    [Bucket |-> a.Bucket, Key |-> a.Key,
                                     ContentType |-> a.ContentType, data |-> obj.data])
    /\ idx' = idx + 1
    /\ UNCHANGED << pc, event, statics3, sourcedir, tmpfile, archive, localfs,
                    files, error, tmpdirs, reports, env >>

\* Mutant of UploadFail: the exception is swallowed and the loop goes on.
UploadFailContinue ==
    /\ pc = "upload"
    /\ idx <= Len(files)
    /\ error' = "S3UploadFailedError"
    /\ idx' = idx + 1
    /\ UNCHANGED << pc, event, statics3, sourcedir, tmpfile, archive, localfs,
                    files, uploads, tmpdirs, dest, reports, env >>

\* Lines 86-98, one iteration: upload_file raises (no such local file, access
\* denied, transport error); the exception leaves the loop and the handler.
UploadFail ==
    /\ pc = "upload"
    /\ idx <= Len(files)
    /\ pc' = "raised"
    /\ error' = "S3UploadFailedError"
    /\ UNCHANGED << event, statics3, sourcedir, tmpfile, archive, localfs, files,
                    idx, uploads, tmpdirs, dest, reports, env >>

\* Lines 135-138: after the loop, report success and return.
ReportSuccess ==
    /\ pc = "upload"
    /\ idx > Len(files)
    /\ reports' = Append(reports, [jobId |-> invocation, result |-> "success"])
    /\ pc' = "done"
    /\ UNCHANGED << event, statics3, sourcedir, tmpfile, archive, localfs, files,
                    idx, uploads, error, tmpdirs, dest, env >>

Handler(objs) ==
    \/ Invoke
    \/ Mkdtemp
    \/ SetupClient
    \/ DownloadOk(objs)
    \/ DownloadFail
    \/ Extract
    \/ Walk
    \/ UploadOk
    \/ UploadFail
    \/ ReportSuccess

\* The artifacts an invocation may meet under Spec.
Objects == SourceObjects(MaxEntries)

Next == Handler(Objects)

Spec == Init /\ [][Next]_vars

\* --------------------------------------------------- repeated invocations
\* CodePipeline invokes the function again once the previous invocation has
\* ended, as a new job. The handler's locals start afresh and the destination
\* buckets persist; nothing reads the directories earlier invocations left.
Reinvoke ==
    /\ pc \in EndStates
    /\ invocation < MaxRuns
    /\ invocation' = invocation + 1
    /\ lastRun' = IF pc = "done"
                  THEN [ok |-> TRUE, archive |-> archive,
                        bucket |-> statics3, dest |-> dest]
                  ELSE NoRun
    /\ pc' = "idle"
    /\ userParameters' = None
    /\ creds' = {}
    /\ statics3' = None
    /\ sourcedir' = <<>>
    /\ tmpfile' = "none"
    /\ archive' = NoArchive
    /\ localfs' = EmptyFs
    /\ files' = <<>>
    /\ idx' = 1
    /\ uploads' = <<>>
    /\ error' = None
    /\ tmpdirs' = {}
    /\ reports' = <<>>
    /\ UNCHANGED dest

\* The artifacts an invocation may meet under SpecRerun.
RerunObjects == SourceObjects(MaxRerunEntries)

NextRerun == Handler(RerunObjects) \/ Reinvoke

SpecRerun == Init /\ [][NextRerun]_vars

\* ------------------------------------------------------------- claims
Ended == pc \in EndStates

Range(f) == { f[i] : i \in DOMAIN f }

\* The credentials of the event lack one of the three fields.
CredentialsIncomplete == ~ (CredentialFields \subseteq creds)

\* The relative paths of the files in the extraction directory.
ExtractedFiles == { relpath(p, sourcedir) : p \in DOMAIN localfs.files }

\* C1: every invocation that has ended has sent exactly one report for its
\* job: a success report when it returned, a failure report when it raised.
C1_ExactlyOneReport ==
    Ended =>
        /\ Len(reports) = 1
        /\ reports[1].jobId = invocation
        /\ reports[1].result = (IF pc = "done" THEN "success" ELSE "failure")

\* C2: a success report is sent only after the download, the extraction and
\* the upload of every extracted file succeeded; once an upload has failed,
\* nothing more is uploaded and no success report is sent.
C2_SuccessReported ==
    reports # <<>> =>
        /\ \A i \in DOMAIN reports : reports[i].result = "success"
        /\ error = None
        /\ tmpfile = "deleted"
        /\ archive.iszip
        /\ localfs = extractall(archive.members, sourcedir, EmptyFs)
        /\ Len(uploads) = Cardinality(ExtractedFiles)
        /\ { u.Key : u \in Range(uploads) } = ExtractedFiles
        /\ \A u \in Range(uploads) :
             /\ u.data = localfs.files[sourcedir \o u.Key]
             /\ << u.Bucket, u.Key >> \in DOMAIN dest

C2_AfterFailedUpload ==
    error = "S3UploadFailedError" =>
        /\ uploads' = uploads
        /\ dest' = dest
        /\ reports' = reports
        /\ reports = <<>>

C2_SuccessOnlyAfterAllUploads ==
    [] C2_SuccessReported /\ [][C2_AfterFailedUpload]_vars

\* C2 witness: an upload failed after an earlier one succeeded and with
\* files still to upload; the invocation ended without a success report.
C2_Witness ==
    /\ pc = "raised"
    /\ error = "S3UploadFailedError"
    /\ uploads # <<>>
    /\ idx < Len(files)
    /\ reports = <<>>

\* The UserParameters text is absent or is not JSON.
ParametersUndecodable ==
    userParameters = None \/ json_loads(userParameters).kind = "JSONDecodeError"

\* The UserParameters text is JSON and the value has no staticS3 field.
ParametersLackBucket ==
    /\ ~ ParametersUndecodable
    /\ ~ ( json_loads(userParameters).kind = "object"
           /\ "staticS3" \in json_loads(userParameters).keys )

\* C3: with UserParameters absent or not JSON the invocation fails with the
\* 'could not be decoded' error, with JSON lacking the staticS3 field with the
\* 'must include the static S3 bucket' error; in both cases nothing is
\* downloaded, allocated, uploaded or reported as a success.
C3_BadParametersDescriptiveError ==
    (pc # "idle" /\ (ParametersUndecodable \/ ParametersLackBucket)) =>
        /\ pc = "raised"
        /\ ParametersUndecodable =>
             error = "UserParameters could not be decoded as JSON"
        /\ ParametersLackBucket =>
             error = "Your UserParameters JSON must include the static S3 bucket"
        /\ tmpfile = "none"
        /\ tmpdirs = {}
        /\ uploads = <<>>
        /\ reports = <<>>

\* C4: when the download failed or the downloaded object is not a zip, the
\* invocation ends with no upload and exactly one failure report.
C4_NoUploadOneFailureReport ==
    (pc = "raised" /\ (error = "ClientError" \/ error = "BadZipFile")) =>
        /\ uploads = <<>>
        /\ Len(reports) = 1
        /\ reports[1].result = "failure"

\* An archive whose member names are relative paths that stay below the
\* extraction root as written.
ValidArchive(a) ==
    /\ a.iszip
    /\ \A m \in Range(a.members) : m.name # <<>> /\ Sanitize(m.name) = m.name

FileNames(a) == { m.name : m \in { x \in Range(a.members) : ~ x.isdir } }

\* C5: after a successful invocation on a valid archive, the uploaded keys
\* are the relative paths of the archive's non-directory members, each
\* uploaded exactly once, and every upload went to the bucket the staticS3
\* field names.
C5_UploadsMatchArchive ==
    (pc = "done" /\ ValidArchive(archive)) =>
        /\ Len(uploads) = Cardinality(FileNames(archive))
        /\ { u.Key : u \in Range(uploads) } = FileNames(archive)
        /\ \A u \in Range(uploads) :
             u.Bucket = json_loads(userParameters).staticS3

\* C5 witness: a successful invocation on a valid archive holding a directory
\* marker and files at two levels.
C5_Witness ==
    /\ pc = "done"
    /\ ValidArchive(archive)
    /\ \E m \in Range(archive.members) : m.isdir
    /\ \E u, v \in Range(uploads) : Len(u.Key) = 1 /\ Len(v.Key) = 2

\* The name of the file an upload was keyed by: the key's last component.
KeyName(u) == u.Key[Len(u.Key)]

\* C6 (as amended): every upload carries a content type resolved from its own
\* file name: text/html for .html, text/css for .css, and the fallback
\* binary/octet-stream for a name with no recognized extension.
C6_ContentTypePerFile ==
    \A u \in Range(uploads) :
        /\ u.ContentType # None
        /\ splitext(KeyName(u)) = ".html" => u.ContentType = "text/html"
        /\ splitext(KeyName(u)) = ".css"  => u.ContentType = "text/css"
        /\ splitext(KeyName(u)) \notin DOMAIN types_map
               => u.ContentType = "binary/octet-stream"
        /\ dest[<< u.Bucket, u.Key >>].ContentType = u.ContentType

\* C6 as the claim states it: the fallback is application/octet-stream.
C6_FallbackApplicationOctetStream ==
    \A u \in Range(uploads) :
        /\ u.ContentType # None
        /\ splitext(KeyName(u)) = ".html" => u.ContentType = "text/html"
        /\ splitext(KeyName(u)) = ".css"  => u.ContentType = "text/css"
        /\ splitext(KeyName(u)) \notin DOMAIN types_map
               => u.ContentType = "application/octet-stream"

\* C6 witness: one invocation uploaded an .html file, a .css file and a file
\* without an extension, each with its own type.
C6_Witness ==
    \E u, v, w \in Range(uploads) :
        /\ splitext(KeyName(u)) = ".html"
        /\ splitext(KeyName(v)) = ".css"
        /\ splitext(KeyName(w)) = ""
        /\ w.ContentType = "binary/octet-stream"

\* C7: when the invocation has ended, the temporary file and the extraction
\* directory it created are gone.
C7_TemporaryStorageRemoved ==
    Ended => (tmpdirs = {} /\ tmpfile # "open")

\* C8: when a credential field is missing, the invocation fails without
\* having allocated temporary storage, downloaded or uploaded anything.
C8_MissingCredentialNoIO ==
    (pc = "raised" /\ CredentialsIncomplete) =>
        /\ tmpdirs = {}
        /\ tmpfile = "none"
        /\ uploads = <<>>

\* A member name that, resolved against the extraction root, leaves it.
Escapes(name) ==
    \E k \in 1..Len(name) :
        Cardinality({ i \in 1..k : name[i] = ".." })
            > Cardinality({ i \in 1..k : name[i] \notin invalid_path_parts })

HasEscapingMember(a) == \E m \in Range(a.members) : Escapes(m.name)

\* C9: an archive with a member escaping the extraction root makes the
\* extraction fail: the handler never gets to list or upload files, nothing
\* of the archive is uploaded and no file lies outside the directory.
C9_EscapingMemberRejected ==
    (archive.iszip /\ HasEscapingMember(archive)) =>
        /\ (pc = "extract" \/ pc = "raised")
        /\ uploads = <<>>
        /\ \A p \in DOMAIN localfs.files : IsPrefix(sourcedir, p)

\* C10: a successful invocation that follows a successful invocation with the
\* same archive and the same destination bucket leaves the destination (keys,
\* contents, content types) as the first one left it.
C10_RerunIdempotent ==
    (pc = "done" /\ lastRun.ok /\ lastRun.archive = archive
        /\ lastRun.bucket = statics3)
    => dest = lastRun.dest

\* C10 witness: the second of two successful invocations with the same
\* archive and bucket has uploaded a file again.
C10_Witness ==
    /\ pc = "done"
    /\ lastRun.ok
    /\ lastRun.archive = archive
    /\ lastRun.bucket = statics3
    /\ uploads # <<>>
    /\ \A u \in Range(uploads) : << u.Bucket, u.Key >> \in DOMAIN lastRun.dest

====
